---- MODULE Spec2Model ----
(***************************************************************************)
(* tailr (src/src/lib.rs): count-specification parser, offset resolver,    *)
(* file metrics scan, stream emitters and the multi-file driver.           *)
(*                                                                         *)
(* i64 / u64 are modelled at a reduced word width of IntBits bits, with    *)
(* the same two's-complement layout: MinInt plays i64::MIN, MaxInt plays   *)
(* i64::MAX, and `as u64` is reduction modulo 2^IntBits.                   *)
(***************************************************************************)
EXTENDS Integers, Sequences, FiniteSets

VARIABLES
    pc,               \* position of the modelled routine
    s, res,           \* parse_take_value: argument text and its result
    take_val, total,  \* get_start_index: arguments
    idx,              \* get_start_index: returned value
    overflow_checks,  \* build profile: TRUE = overflow checks on (debug)
    scan_file,        \* count_lines_bytes: content of the file being scanned
    rdr,              \* count_lines_bytes: bytes consumed by the reader
    buf,              \* count_lines_bytes: the String the lines are read into
    bytes, lines,     \* count_lines_bytes: running totals
    scan_res,         \* count_lines_bytes: returned value
    cli_files,        \* cli.files
    cli_bytes,        \* cli.bytes (None or Some(TakeValue))
    cli_lines,        \* cli.lines
    cli_quiet,        \* cli.quiet
    fs,               \* the file system: filename -> content, or NoFile
    i,                \* run: index of the filename being processed
    f,                \* run: content behind the handle opened at the loop head
    totals,           \* run: (total_lines, total_bytes)
    stdout, stderr,   \* what has been written to the two streams
    result            \* what run has returned

parseVars   == <<s, res>>
resolveVars == <<take_val, total, idx>>
scanVars    == <<scan_file, rdr, buf, bytes, lines, scan_res>>
cliVars     == <<cli_files, cli_bytes, cli_lines, cli_quiet>>
runVars     == <<cliVars, fs, i, f, totals, stdout, stderr, result>>
vars        == <<pc, parseVars, resolveVars, overflow_checks, scanVars, runVars>>

----------------------------------------------------------------------------
(* Bounds *)

IntBits == 5
MaxTextLen == 3
MaxScanLen == 4
MaxFileLen == 2
MaxFiles == 2

----------------------------------------------------------------------------
(* Machine integers *)

Pow2(k) == 2 ^ k

MaxInt == Pow2(IntBits - 1) - 1
MinInt == -Pow2(IntBits - 1)

I64 == MinInt..MaxInt

AsU64(x) == x % Pow2(IntBits)

\* i64::abs without overflow checks: wraps at MinInt
wrapping_abs(n) == IF n = MinInt THEN MinInt ELSE IF n < 0 THEN -n ELSE n

----------------------------------------------------------------------------
(* Values *)

PlusZero   == [tag |-> "PlusZero", n |-> 0]
TakeNum(n) == [tag |-> "TakeNum", n |-> n]

TakeValue == {PlusZero} \cup {TakeNum(n) : n \in I64}

None    == [tag |-> "None", v |-> 0]
Some(k) == [tag |-> "Some", v |-> k]
\* the call does not return: the thread panics
Panic   == [tag |-> "Panic", v |-> 0]

Ok(v)  == [kind |-> "Ok", val |-> v, msg |-> <<>>]
Err(m) == [kind |-> "Err", val |-> <<>>, msg |-> m]

NoResult == [kind |-> "none", val |-> <<>>, msg |-> <<>>]

----------------------------------------------------------------------------
(* Text *)

Digits == {"0", "1", "2", "3", "4", "5", "6", "7", "8", "9"}

\* "x" stands for any character that is neither a sign nor a decimal digit
Chars == Digits \cup {"+", "-", "x"}

DigitVal(c) ==
    CASE c = "0" -> 0 [] c = "1" -> 1 [] c = "2" -> 2 [] c = "3" -> 3
      [] c = "4" -> 4 [] c = "5" -> 5 [] c = "6" -> 6 [] c = "7" -> 7
      [] c = "8" -> 8 [] c = "9" -> 9

DigitChar(d) ==
    CASE d = 0 -> "0" [] d = 1 -> "1" [] d = 2 -> "2" [] d = 3 -> "3"
      [] d = 4 -> "4" [] d = 5 -> "5" [] d = 6 -> "6" [] d = 7 -> "7"
      [] d = 8 -> "8" [] d = 9 -> "9"

Texts == UNION {[1..k -> Chars] : k \in 0..MaxTextLen}

\* i64::to_string / "{}" of a non-negative integer
RECURSIVE to_string(_)
to_string(m) ==
    IF m < 10 THEN <<DigitChar(m)>>
    ELSE Append(to_string(m \div 10), DigitChar(m % 10))

starts_with(t, c) == Len(t) > 0 /\ t[1] = c

RECURSIVE trim_start_matches(_, _)
trim_start_matches(t, c) ==
    IF starts_with(t, c) THEN trim_start_matches(Tail(t), c) ELSE t

\* digit loop of i64::from_str: checked multiply by 10, then checked add
\* (positive) or checked subtract (negative) of each digit
RECURSIVE ParseDigits(_, _, _)
ParseDigits(t, acc, positive) ==
    IF t = <<>> THEN Ok(acc)
    ELSE IF t[1] \notin Digits THEN Err("InvalidDigit")
    ELSE LET mul == acc * 10
             nxt == IF positive THEN mul + DigitVal(t[1])
                                ELSE mul - DigitVal(t[1])
         IN  IF mul > MaxInt \/ nxt > MaxInt THEN Err("PosOverflow")
             ELSE IF mul < MinInt \/ nxt < MinInt THEN Err("NegOverflow")
             ELSE ParseDigits(Tail(t), nxt, positive)

\* str::parse::<i64>: one optional sign, then at least one digit
ParseI64(t) ==
    IF t = <<>> THEN Err("Empty")
    ELSE IF t = <<"+">> \/ t = <<"-">> THEN Err("InvalidDigit")
    ELSE IF t[1] = "+" THEN ParseDigits(Tail(t), 0, TRUE)
    ELSE IF t[1] = "-" THEN ParseDigits(Tail(t), 0, FALSE)
    ELSE ParseDigits(t, 0, TRUE)

err_msg(field_name, t) == <<"illegal ", field_name, " count -- ", t>>

\* negation of an i64: overflows at MinInt (unreachable in parse_take_value:
\* the negated value was parsed from text without a leading '-')
Neg(v) == AsU64(-v + Pow2(IntBits - 1)) - Pow2(IntBits - 1)

\* variant: a plain number counts from the start (no negation of unsigned input)
parse_take_value_unsigned_positive(t, field_name) ==
    LET p == ParseI64(trim_start_matches(t, "+"))
    IN  IF p.kind = "Err" THEN Err(err_msg(field_name, t))
        ELSE IF starts_with(t, "+") /\ p.val = 0 THEN Ok(PlusZero)
        ELSE Ok(TakeNum(p.val))

\* variant: "+0" is not told apart from numeric zero
parse_take_value_no_plus_zero(t, field_name) ==
    LET p == ParseI64(t)
    IN  IF p.kind = "Err" THEN Err(err_msg(field_name, t))
        ELSE IF starts_with(t, "+") \/ starts_with(t, "-")
        THEN Ok(TakeNum(p.val))
        ELSE Ok(TakeNum(Neg(p.val)))

parse_take_value(t, field_name) ==
    LET is_starts_with_plus  == starts_with(t, "+")
        is_starts_with_minus == starts_with(t, "-")
        is_negative == ~is_starts_with_plus \/ is_starts_with_minus
    IN  IF is_negative
        THEN LET p == ParseI64(t)
             IN  IF p.kind = "Err" THEN Err(err_msg(field_name, t))
                 ELSE IF ~is_starts_with_minus THEN Ok(TakeNum(Neg(p.val)))
                 ELSE Ok(TakeNum(p.val))
        ELSE LET p == ParseI64(trim_start_matches(t, "+"))
             IN  IF p.kind = "Err" THEN Err(err_msg(field_name, t))
                 ELSE IF p.val = 0 THEN Ok(PlusZero)
                 ELSE Ok(TakeNum(p.val))

parse_lines(t) == parse_take_value(t, "line")

parse_bytes(t) == parse_take_value(t, "byte")

----------------------------------------------------------------------------
(* Offset resolver *)

\* variant: the 1-indexed start is not converted to a 0-indexed offset
get_start_index_one_based(tv, tot, checks) ==
    IF tv = PlusZero
    THEN IF tot = 0 THEN None ELSE Some(0)
    ELSE LET n == tv.n
         IN  IF n = 0 THEN None
             ELSE IF n > 0
             THEN IF tot < n THEN None ELSE Some(AsU64(n))
             ELSE IF checks /\ n = MinInt THEN Panic
             ELSE IF tot < wrapping_abs(n) THEN Some(0)
             ELSE Some(AsU64(tot + n))

get_start_index(tv, tot, checks) ==
    IF tv = PlusZero
    THEN IF tot = 0 THEN None ELSE Some(0)
    ELSE LET n == tv.n
         IN  IF n = 0 THEN None
             ELSE IF n > 0
             THEN IF tot < n THEN None ELSE Some(AsU64(n - 1))
             ELSE IF checks /\ n = MinInt THEN Panic
             ELSE IF tot < wrapping_abs(n) THEN Some(0)
             ELSE Some(AsU64(tot + n))

----------------------------------------------------------------------------
(* Files *)

\* "a" is a one-byte character, "LF" the newline, "FF" the byte 0xFF, which
\* occurs in no valid UTF-8 sequence
Bytes == {"a", "LF", "FF"}

Contents(n) == UNION {[1..k -> Bytes] : k \in 0..n}

NoFile == <<"ENOENT">>

\* end of the line that starts after position pos: through the next
\* newline, or the end of the file
RECURSIVE LineEnd(_, _)
LineEnd(c, pos) ==
    IF pos >= Len(c) THEN Len(c)
    ELSE IF c[pos + 1] = "LF" THEN pos + 1
    ELSE LineEnd(c, pos + 1)

ValidUtf8(t) == \A k \in 1..Len(t) : t[k] # "FF"

\* BufRead::read_line on a String: the bytes through the next newline are
\* appended when they are valid UTF-8 and their number is returned (0 at end
\* of file); otherwise the call fails with InvalidData
read_line(c, pos) ==
    LET line == SubSeq(c, pos + 1, LineEnd(c, pos))
    IN  IF ValidUtf8(line) THEN Ok(line) ELSE Err("InvalidData")

\* String::from_utf8_lossy: every invalid byte becomes U+FFFD
from_utf8_lossy(t) ==
    [k \in 1..Len(t) |-> IF t[k] = "FF" THEN "U+FFFD" ELSE t[k]]

\* the loop of count_lines_bytes, from reader position pos
RECURSIVE ScanLoop(_, _, _, _)
ScanLoop(c, pos, nlines, nbytes) ==
    LET r == read_line(c, pos)
    IN  IF r.kind = "Err" THEN r
        ELSE IF Len(r.val) = 0 THEN Ok(<<nlines, nbytes>>)
        ELSE ScanLoop(c, pos + Len(r.val), nlines + 1, nbytes + Len(r.val))

\* File::open by name
open(filesystem, filename) ==
    IF filesystem[filename] = NoFile THEN Err("NotFound")
    ELSE Ok(filesystem[filename])

count_lines_bytes(filesystem, filename) ==
    LET file == open(filesystem, filename)
    IN  IF file.kind = "Err" THEN file ELSE ScanLoop(file.val, 0, 0, 0)

\* outcome of an emitter: what it printed and how it ended
Emitted(out, how) == [out |-> out, how |-> how]

\* the loop of print_lines, from reader position pos
RECURSIVE PrintLoop(_, _, _, _, _)
PrintLoop(c, pos, line_count, start, out) ==
    LET r == read_line(c, pos)
    IN  IF r.kind = "Err" THEN Emitted(out, r.msg)
        ELSE IF Len(r.val) = 0 THEN Emitted(out, "Ok")
        ELSE PrintLoop(c, pos + Len(r.val), line_count + 1, start,
                       IF line_count >= start THEN out \o r.val ELSE out)

print_lines(file, num_lines, total_lines, checks) ==
    LET start == get_start_index(num_lines, total_lines, checks)
    IN  IF start = Panic THEN Emitted(<<>>, "Panic")
        ELSE IF start = None THEN Emitted(<<>>, "Ok")
        ELSE PrintLoop(file, 0, 0, start.v, <<>>)

\* Seek::seek(SeekFrom::Start(n)): the offset goes to lseek as a signed
\* 64-bit off_t, which rejects what is negative there
seek(n) == IF n > MaxInt THEN Err("InvalidInput") ELSE Ok(n)

print_bytes(file, num_bytes, total_bytes, checks) ==
    LET start == get_start_index(num_bytes, total_bytes, checks)
    IN  IF start = Panic THEN Emitted(<<>>, "Panic")
        ELSE IF start = None THEN Emitted(<<>>, "Ok")
        ELSE IF seek(start.v).kind = "Err"
        THEN Emitted(<<>>, seek(start.v).msg)
        ELSE Emitted(from_utf8_lossy(SubSeq(file, start.v + 1, Len(file))),
                     "Ok")

----------------------------------------------------------------------------
(* Values of the variables a specification does not use *)

ParseIdle   == s = <<>> /\ res = NoResult
ResolveIdle == take_val = PlusZero /\ total = 0 /\ idx = None
ScanIdle    ==
    /\ scan_file = <<>> /\ rdr = 0 /\ buf = <<>>
    /\ bytes = 0 /\ lines = 0 /\ scan_res = NoResult
RunIdle     ==
    /\ cli_files = <<>> /\ cli_bytes = None /\ cli_lines = PlusZero
    /\ cli_quiet = FALSE /\ fs = <<>> /\ i = 0 /\ f = <<>>
    /\ totals = <<0, 0>> /\ stdout = <<>> /\ stderr = <<>>
    /\ result = NoResult

----------------------------------------------------------------------------
(* Specification of the parser: the text of one -n / -c option is parsed *)

InitParse ==
    /\ pc = "args"
    /\ s \in Texts
    /\ res = NoResult
    /\ overflow_checks = FALSE
    /\ ResolveIdle /\ ScanIdle /\ RunIdle

ParseLines ==
    /\ pc = "args"
    /\ res' = parse_lines(s)
    /\ pc' = "line_parsed"
    /\ UNCHANGED <<s, resolveVars, overflow_checks, scanVars, runVars>>

ParseBytes ==
    /\ pc = "args"
    /\ res' = parse_bytes(s)
    /\ pc' = "byte_parsed"
    /\ UNCHANGED <<s, resolveVars, overflow_checks, scanVars, runVars>>

NextParse == ParseLines \/ ParseBytes

SpecParse == InitParse /\ [][NextParse]_vars

----------------------------------------------------------------------------
(* Specification of the resolver: one call of get_start_index *)

InitResolve ==
    /\ pc = "call"
    /\ take_val \in TakeValue
    /\ total \in 0..MaxInt
    /\ idx = None
    /\ overflow_checks \in BOOLEAN
    /\ ParseIdle /\ ScanIdle /\ RunIdle

GetStartIndex ==
    /\ pc = "call"
    /\ idx' = get_start_index(take_val, total, overflow_checks)
    /\ pc' = "returned"
    /\ UNCHANGED <<take_val, total, parseVars, overflow_checks, scanVars,
                   runVars>>

NextResolve == GetStartIndex

SpecResolve == InitResolve /\ [][NextResolve]_vars

----------------------------------------------------------------------------
(* Specification of the metrics scan: count_lines_bytes on an opened file, *)
(* one step per iteration of its loop                                      *)

InitScan ==
    /\ pc = "scan"
    /\ scan_file \in Contents(MaxScanLen)
    /\ rdr = 0
    /\ buf = <<>>
    /\ bytes = 0
    /\ lines = 0
    /\ scan_res = NoResult
    /\ overflow_checks = FALSE
    /\ ParseIdle /\ ResolveIdle /\ RunIdle

\* rdr.read_line(&mut buf)? returned a line: it is counted
ScanLine ==
    /\ pc = "scan"
    /\ LET r == read_line(scan_file, rdr)
       IN  /\ r.kind = "Ok"
           /\ Len(r.val) # 0
           /\ buf' = buf \o r.val
           /\ rdr' = rdr + Len(r.val)
           /\ bytes' = bytes + Len(r.val)
           /\ lines' = lines + 1
    /\ UNCHANGED <<pc, scan_file, scan_res, parseVars, resolveVars,
                   overflow_checks, runVars>>

\* rdr.read_line(&mut buf)? returned 0: break, Ok((lines, bytes))
ScanEof ==
    /\ pc = "scan"
    /\ read_line(scan_file, rdr) = Ok(<<>>)
    /\ scan_res' = Ok(<<lines, bytes>>)
    /\ pc' = "scanned"
    /\ UNCHANGED <<scan_file, rdr, buf, bytes, lines, parseVars, resolveVars,
                   overflow_checks, runVars>>

\* rdr.read_line(&mut buf)? failed: the error is returned
ScanError ==
    /\ pc = "scan"
    /\ read_line(scan_file, rdr).kind = "Err"
    /\ scan_res' = read_line(scan_file, rdr)
    /\ pc' = "scanned"
    /\ UNCHANGED <<scan_file, rdr, buf, bytes, lines, parseVars, resolveVars,
                   overflow_checks, runVars>>

NextScan == ScanLine \/ ScanEof \/ ScanError

SpecScan == InitScan /\ [][NextScan]_vars

----------------------------------------------------------------------------
(* Specification of the driver: run over cli.files *)

FileNames == <<"f1", "f2", "f3">>

Header(filename) ==
    CASE filename = "f1" -> "==> f1 <=="
      [] filename = "f2" -> "==> f2 <=="
      [] filename = "f3" -> "==> f3 <=="

\* cli.lines as clap leaves it when -n is absent: default_value = "10"
DefaultLines == parse_lines(<<"1", "0">>).val

file_count == Len(cli_files)
filename == cli_files[i + 1]

InitRun ==
    /\ pc = "loop"
    /\ \E k \in 1..MaxFiles :
           /\ cli_files = SubSeq(FileNames, 1, k)
           /\ fs \in [{FileNames[j] : j \in 1..k} ->
                          Contents(MaxFileLen) \cup {NoFile}]
    /\ \/ cli_bytes = None /\ cli_lines \in TakeValue
       \/ cli_bytes \in {Some(v) : v \in TakeValue} /\ cli_lines = DefaultLines
    /\ cli_quiet \in BOOLEAN
    /\ overflow_checks \in BOOLEAN
    /\ i = 0
    /\ f = <<>>
    /\ totals = <<0, 0>>
    /\ stdout = <<>>
    /\ stderr = <<>>
    /\ result = NoResult
    /\ ParseIdle /\ ResolveIdle /\ ScanIdle

\* Err(e) => eprintln!("{}: {}", filename, e)
RunOpenFails ==
    /\ pc = "loop"
    /\ i < file_count
    /\ open(fs, filename).kind = "Err"
    /\ stderr' = Append(stderr, <<filename, open(fs, filename).msg>>)
    /\ i' = i + 1
    /\ UNCHANGED <<pc, cliVars, fs, f, totals, stdout, result, parseVars,
                   resolveVars, overflow_checks, scanVars>>

\* Ok(f) => the header is printed when several files are named
RunOpens ==
    /\ pc = "loop"
    /\ i < file_count
    /\ open(fs, filename).kind = "Ok"
    /\ f' = open(fs, filename).val
    /\ stdout' = IF file_count > 1 /\ ~cli_quiet
                 THEN stdout \o (IF i > 0 THEN <<"LF">> ELSE <<>>)
                             \o <<Header(filename), "LF">>
                 ELSE stdout
    /\ pc' = "count"
    /\ UNCHANGED <<cliVars, fs, i, totals, stderr, result, parseVars,
                   resolveVars, overflow_checks, scanVars>>

\* let (total_lines, total_bytes) = count_lines_bytes(filename)?
RunCounts ==
    /\ pc = "count"
    /\ LET r == count_lines_bytes(fs, filename)
       IN  IF r.kind = "Err"
           THEN /\ result' = r
                /\ pc' = "done"
                /\ UNCHANGED totals
           ELSE /\ totals' = r.val
                /\ pc' = "print"
                /\ UNCHANGED result
    /\ UNCHANGED <<cliVars, fs, i, f, stdout, stderr, parseVars, resolveVars,
                   overflow_checks, scanVars>>

\* the emitter's outcome: its output, then `?`, a panic, or the next file
RunEmits(e) ==
    /\ stdout' = stdout \o e.out
    /\ IF e.how = "Ok"
       THEN /\ i' = i + 1
            /\ pc' = "loop"
            /\ UNCHANGED result
       ELSE /\ result' = IF e.how = "Panic" THEN [NoResult EXCEPT !.kind = "Panic"]
                                            ELSE Err(e.how)
            /\ pc' = "done"
            /\ UNCHANGED i
    /\ UNCHANGED <<cliVars, fs, f, totals, stderr, parseVars, resolveVars,
                   overflow_checks, scanVars>>

\* print_bytes(f, &cli.bytes.as_ref().unwrap(), total_bytes)?; continue
RunPrintsBytes ==
    /\ pc = "print"
    /\ cli_bytes.tag = "Some"
    /\ RunEmits(print_bytes(f, cli_bytes.v, totals[2], overflow_checks))

\* print_lines(BufReader::new(f), &cli.lines, total_lines)?
RunPrintsLines ==
    /\ pc = "print"
    /\ cli_bytes.tag = "None"
    /\ RunEmits(print_lines(f, cli_lines, totals[1], overflow_checks))

\* the loop is over: Ok(())
RunReturns ==
    /\ pc = "loop"
    /\ i = file_count
    /\ result' = Ok(<<>>)
    /\ pc' = "done"
    /\ UNCHANGED <<cliVars, fs, i, f, totals, stdout, stderr, parseVars,
                   resolveVars, overflow_checks, scanVars>>

\* the environment removes the file run has open; the handle f stays
\* readable. (Removing a file run has not reached yet is the same as
\* starting without it.)
Unlink ==
    /\ pc \in {"count", "print"}
    /\ fs[filename] # NoFile
    /\ fs' = [fs EXCEPT ![filename] = NoFile]
    /\ UNCHANGED <<pc, cliVars, i, f, totals, stdout, stderr, result,
                   parseVars, resolveVars, overflow_checks, scanVars>>

NextRun ==
    \/ RunOpenFails
    \/ RunOpens
    \/ RunCounts
    \/ RunPrintsBytes
    \/ RunPrintsLines
    \/ RunReturns
    \/ Unlink

SpecRun == InitRun /\ [][NextRun]_vars

----------------------------------------------------------------------------
(* Properties of the resolver, checked under SpecResolve *)

\* C1: for every TakeNum(n) with n < 0, down to the most negative value, and
\* every total >= 0, get_start_index returns Some(0) when total < |n| and
\* Some(total - |n|) otherwise; it never panics and the offset never exceeds
\* total.
C1NegativeResolves ==
    (pc = "returned" /\ take_val.tag = "TakeNum" /\ take_val.n < 0) =>
        /\ idx = Some(IF total < -take_val.n THEN 0 ELSE total + take_val.n)
        /\ idx.v <= total

\* C2: on a non-negative specification get_start_index agrees with the
\* reference resolver: PlusZero gives None on total 0 and Some(0) otherwise,
\* TakeNum(0) gives None for every total, TakeNum(n) with n > 0 gives None
\* when total < n and Some(n - 1) otherwise.
C2NonNegativeResolves ==
    pc = "returned" =>
        /\ take_val = PlusZero =>
               idx = (IF total = 0 THEN None ELSE Some(0))
        /\ take_val = TakeNum(0) => idx = None
        /\ (take_val.tag = "TakeNum" /\ take_val.n > 0) =>
               idx = (IF total < take_val.n THEN None
                                            ELSE Some(take_val.n - 1))
        /\ (total > 0 /\ take_val \in {PlusZero, TakeNum(0)}) =>
               get_start_index(PlusZero, total, overflow_checks)
                   # get_start_index(TakeNum(0), total, overflow_checks)

C2Witness ==
    /\ pc = "returned"
    /\ take_val = TakeNum(MaxInt)
    /\ total = MaxInt
    /\ idx = Some(MaxInt - 1)

----------------------------------------------------------------------------
(* Properties of the parser, checked under SpecParse *)

\* the field name the finished call was given
FieldName == IF pc = "line_parsed" THEN "line" ELSE "byte"

AllDigits(t) == \A k \in 1..Len(t) : t[k] \in Digits

\* the number a string of decimal digits denotes, over the integers
RECURSIVE Value(_)
Value(t) ==
    IF t = <<>> THEN 0
    ELSE 10 * Value(SubSeq(t, 1, Len(t) - 1)) + DigitVal(t[Len(t)])

\* t is the text "{m}" of a non-negative integer m
IsDecimalOf(t, m) == t # <<>> /\ AllDigits(t) /\ m = Value(t) /\ t = to_string(m)

\* the argument text is "{m}" or "-{m}" / is "+{m}", where m = Magnitude
Digitals == IF s # <<>> /\ s[1] \in {"+", "-"} THEN Tail(s) ELSE s
Magnitude == IF AllDigits(Digitals) THEN Value(Digitals) ELSE 0
IsUnsigned == IsDecimalOf(s, Magnitude)
IsExplicitMinus == starts_with(s, "-") /\ IsDecimalOf(Tail(s), Magnitude)
IsExplicitPlus == starts_with(s, "+") /\ IsDecimalOf(Tail(s), Magnitude)

\* C3: for all non-negative integers m, the unsigned text "{m}" and the
\* explicit-minus text "-{m}" both parse to TakeNum(-m), also for the m
\* whose negation is the most negative representable value.
\* (stated over the m for which TakeNum(-m) exists, 0 <= m <= MaxInt + 1)
C3UnsignedIsMinus ==
    (pc # "args" /\ (IsUnsigned \/ IsExplicitMinus)
                 /\ Magnitude <= MaxInt + 1) =>
        res = Ok(TakeNum(-Magnitude))

\* C3 (amended): for 0 <= m <= MaxInt both forms parse to TakeNum(-m); for
\* m = MaxInt + 1 only the explicit-minus form parses (to TakeNum(MinInt))
\* and the unsigned form is an illegal count; for larger m both forms are
\* illegal counts.
C3UnsignedIsMinusInRange ==
    (pc # "args" /\ (IsUnsigned \/ IsExplicitMinus)) =>
        res = IF Magnitude <= MaxInt \/ (Magnitude = MaxInt + 1 /\ IsExplicitMinus)
              THEN Ok(TakeNum(-Magnitude))
              ELSE Err(err_msg(FieldName, s))

C3Witness ==
    /\ pc = "line_parsed"
    /\ IsUnsigned
    /\ Magnitude = MaxInt
    /\ res = Ok(TakeNum(MinInt + 1))

\* C4: for 0 <= m <= MaxInt the explicit-plus text "+{m}" parses to PlusZero
\* iff m = 0 and to TakeNum(m) otherwise; no text without a leading '+'
\* parses to PlusZero.
C4ExplicitPlus ==
    pc # "args" =>
        /\ (IsExplicitPlus /\ Magnitude <= MaxInt) =>
               /\ res = Ok(PlusZero) <=> Magnitude = 0
               /\ Magnitude # 0 => res = Ok(TakeNum(Magnitude))
        /\ ~starts_with(s, "+") => res # Ok(PlusZero)

C4Witness ==
    /\ pc = "byte_parsed"
    /\ IsExplicitPlus
    /\ Magnitude = 0
    /\ res = Ok(PlusZero)

\* what remains of a text after one optional leading sign is removed
StripSign(t) ==
    IF starts_with(t, "+") \/ starts_with(t, "-") THEN Tail(t) ELSE t

\* C5: parse_take_value succeeds only on one optional sign followed by one
\* or more decimal digits; whenever what remains after the single optional
\* sign holds a non-digit character it fails, and every failure carries
\* exactly "illegal {field_name} count -- {text}".
C5OnlySignedDigits ==
    pc # "args" =>
        /\ res.kind = "Ok" => (StripSign(s) # <<>> /\ AllDigits(StripSign(s)))
        /\ ~AllDigits(StripSign(s)) => res = Err(err_msg(FieldName, s))
        /\ res.kind # "Ok" => res = Err(err_msg(FieldName, s))

----------------------------------------------------------------------------
(* Reference notions of the specification, independent of the code *)

\* number of lines of a content: one per newline, plus a final
\* unterminated fragment
NumLines(c) ==
    Cardinality({k \in 1..Len(c) : c[k] = "LF"})
        + (IF Len(c) > 0 /\ c[Len(c)] # "LF" THEN 1 ELSE 0)

\* length of the longest line of a content, terminator included
LongestLine(c) ==
    LET ends == {0} \cup {k \in 1..Len(c) : c[k] = "LF"} \cup {Len(c)}
        prev(e) == CHOOSE b \in ends : b < e /\ \A x \in ends : ~(b < x /\ x < e)
        lens == {0} \cup {e - prev(e) : e \in ends \ {0}}
    IN  CHOOSE m \in lens : \A x \in lens : x <= m

\* resolve(take_value, total) of the specification, over the integers
Resolve(tv, tot) ==
    IF tv = PlusZero THEN (IF tot = 0 THEN None ELSE Some(0))
    ELSE IF tv.n = 0 THEN None
    ELSE IF tv.n > 0 THEN (IF tot < tv.n THEN None ELSE Some(tv.n - 1))
    ELSE IF tot < -tv.n THEN Some(0) ELSE Some(tot + tv.n)

\* the content from its k-th line (zero-based) to its end
RECURSIVE FromLine(_, _)
FromLine(c, k) ==
    IF k = 0 \/ c = <<>> THEN c
    ELSE FromLine(Tail(c), IF c[1] = "LF" THEN k - 1 ELSE k)

ExpectedLines(c, tv) ==
    IF Resolve(tv, NumLines(c)) = None THEN <<>>
    ELSE FromLine(c, Resolve(tv, NumLines(c)).v)

----------------------------------------------------------------------------
(* Properties of the driver, checked under SpecRun *)

\* C6: in line mode run writes, for a file that opens, exactly the file's
\* lines from offset k to the last, where Some(k) = resolve(v, L) and L is
\* the file's number of lines, and nothing when the resolution is None; so
\* TakeNum(-m) emits the last min(m, L) lines. (Stated for a run over one
\* readable file of valid UTF-8, where standard output is that file's
\* output.)
C6LineModeTail ==
    ( /\ pc = "done"
      /\ cli_bytes.tag = "None"
      /\ file_count = 1
      /\ stderr = <<>>
      /\ ValidUtf8(f)
      /\ result # Err("NotFound") ) =>
        stdout = ExpectedLines(f, cli_lines)

\* C7: a file that cannot be opened never aborts the batch, at any attempt
\* run makes to open it: run does not return the open error, each failed
\* open is a diagnostic "{filename}: {error}", and the later filenames are
\* processed.
C7OpenFailureRecoverable ==
    /\ result # Err("NotFound")
    /\ pc = "done" /\ result = Ok(<<>>) => i = file_count
    /\ \A k \in 1..Len(stderr) : stderr[k][2] = "NotFound"

\* C8: in byte mode a file holding invalid UTF-8 never fails the run:
\* run does not return a decoding error, and what a finished run wrote
\* holds the replacement character where the tail had an invalid byte.
C8LossyNeverFails ==
    cli_bytes.tag = "Some" =>
        /\ result # Err("InvalidData")
        /\ \A k \in 1..Len(stdout) : stdout[k] # "FF"

\* C9: with several filenames and headers on, standard output never begins
\* with a blank line: the header of the first file that opens is not
\* preceded by one, also when earlier filenames failed to open.
C9NoLeadingBlankLine ==
    (file_count > 1 /\ ~cli_quiet /\ stdout # <<>>) => stdout[1] # "LF"

----------------------------------------------------------------------------
(* Properties of the metrics scan, checked under SpecScan *)

\* C10: at every iteration of the scan loop the read buffer holds at most
\* the line being read, so its length never exceeds the longest line of the
\* file; the totals returned are the file's number of lines and of bytes.
C10BufferHoldsOneLine ==
    /\ Len(buf) <= LongestLine(scan_file)
    /\ scan_res.kind = "Ok" =>
           scan_res.val = <<NumLines(scan_file), Len(scan_file)>>

====
